---- MODULE Spec2Model ----
(***************************************************************************)
(* Evidence-integrity core of IllinoisProof: dual_hash, emit_receipt, the  *)
(* StopRule tiers, the Benford and entropy detectors' receipt emission,    *)
(* and the Merkle root / proof functions (src/src/core.py,                 *)
(* src/src/prove.py, src/src/detect/benford.py, src/src/detect/entropy.py).*)
(*                                                                         *)
(* Python values are represented as follows.                               *)
(*   str / bytes   a TLA+ string                                           *)
(*   dict          a sequence of <<key, value>> pairs with distinct keys,  *)
(*                 in insertion order; a value is held as its JSON literal *)
(*   float         an integer count of thousandths                         *)
(*   a digest      the string "sha256(<input>)" resp. "blake3(<input>)":   *)
(*                 an injective function of the input, i.e. the hash taken *)
(*                 as collision-free                                       *)
(* A function of the program is an operator that returns, besides its      *)
(* result, the trace of effects it performs in program order (print,       *)
(* append, raise, return); an action runs such a trace against the state.  *)
(***************************************************************************)
EXTENDS Integers, Sequences, FiniteSets, TLC

VARIABLES
    HAS_BLAKE3,      \* core.HAS_BLAKE3: whether the blake3 import succeeded
    now,             \* the wall clock read by datetime.now()
    stream,          \* stdout: the lines printed so far
    ledger,          \* receipts.jsonl: the lines of the file
    log,             \* history: one record per emit_receipt call made so far
    last,            \* the last operation: its name, arguments and effect trace
    baseline_cache,  \* entropy._baseline_cache: cache key -> baseline
    receipts,        \* the receipt list in memory that roots and proofs are built over
    workers,         \* each concurrent caller of emit_receipt: where it stands in the call
    chain            \* a prove.ReceiptChain object: its fields

vars == <<HAS_BLAKE3, now, stream, ledger, log, last, baseline_cache, receipts,
         workers, chain>>

------------------------------------------------------------------------------
(* Bounds of the model *)

MaxStream == 2
MaxClock == 1
MaxReceipts == 6

------------------------------------------------------------------------------
(* Python dict and JSON *)

\* Every key a dict of the model can hold, in the order of Python's str
\* comparison, which json.dumps(sort_keys=True) sorts by.
KeyOrder ==
    << "action", "amount", "anchor_hash", "baseline", "baseline_mean",
       "baseline_std", "batch_size", "chi_squared", "classification",
       "compressed_size", "compression_ratio", "delta", "digit_position",
       "entity", "entity_type", "error", "expected_frequencies", "file", "hash_algos",
       "is_anomaly", "merkle_root", "metric", "observed_frequencies",
       "p_value", "pass_fail", "payload_hash", "raw_size", "receipt_count",
       "receipt_type", "receipts_count", "sample_size", "severity", "shannon_entropy", "source", "source_file",
       "status", "tenant_id", "ts", "valid", "z_score" >>

KeyRank(k) == CHOOSE i \in 1..Len(KeyOrder) : KeyOrder[i] = k

JsonStr(s) == "\"" \o s \o "\""
JsonNum(n) == ToString(n)
JsonBool(b) == IF b THEN "true" ELSE "false"
\* a float held as thousandths, e.g. 50 for 0.05
JsonMilli(n) == ToString(n) \o "e-3"

Keys(d) == {d[i][1] : i \in 1..Len(d)}
Has(d, k) == k \in Keys(d)
Get(d, k, default) ==
    IF Has(d, k) THEN d[CHOOSE i \in 1..Len(d) : d[i][1] = k][2] ELSE default

\* d[k] = v: an existing key keeps its position, a new key goes last
DictSet(d, k, v) ==
    IF Has(d, k)
    THEN [i \in 1..Len(d) |-> IF d[i][1] = k THEN <<k, v>> ELSE d[i]]
    ELSE Append(d, <<k, v>>)

\* {**d, **e}
RECURSIVE DictUpdate(_, _)
DictUpdate(d, e) ==
    IF e = <<>> THEN d
    ELSE DictUpdate(DictSet(d, Head(e)[1], Head(e)[2]), Tail(e))

\* {k: v for k, v in d.items() if k not in ks}
Without(d, ks) == SelectSeq(d, LAMBDA p : p[1] \notin ks)

\* two dicts are equal in Python when they hold the same pairs, in any order
SameDict(d, e) == {d[i] : i \in 1..Len(d)} = {e[i] : i \in 1..Len(e)}

RECURSIVE InsertByKey(_, _)
InsertByKey(sorted, p) ==
    IF sorted = <<>> THEN <<p>>
    ELSE IF KeyRank(p[1]) < KeyRank(Head(sorted)[1]) THEN <<p>> \o sorted
    ELSE <<Head(sorted)>> \o InsertByKey(Tail(sorted), p)

RECURSIVE SortItems(_)
SortItems(d) ==
    IF d = <<>> THEN <<>> ELSE InsertByKey(SortItems(Tail(d)), Head(d))

RECURSIVE JoinItems(_)
JoinItems(items) ==
    IF items = <<>> THEN ""
    ELSE JsonStr(Head(items)[1]) \o ": " \o Head(items)[2]
         \o (IF Len(items) > 1 THEN ", " ELSE "") \o JoinItems(Tail(items))

\* json.dumps(d, sort_keys=False): the keys in insertion order
json_dumps_unsorted(d) == "{" \o JoinItems(d) \o "}"

\* json.dumps(d, sort_keys=True)
json_dumps(d) == "{" \o JoinItems(SortItems(d)) \o "}"

------------------------------------------------------------------------------
(* core.py: dual_hash *)

TENANT_ID == "illinoisproof"

sha256(data) == "sha256(" \o data \o ")"
blake3(data) == "blake3(" \o data \o ")"

dual_hash(data) ==
    LET sha == sha256(data)
        b3 == IF HAS_BLAKE3 THEN blake3(data) ELSE sha
    IN sha \o ":" \o b3

\* str.encode('utf-8') of a str held as its code points (below 0x10000)
RECURSIVE utf8(_)
utf8(chars) ==
    IF chars = <<>> THEN <<>>
    ELSE LET c == Head(chars)
         IN (IF c < 128 THEN <<c>>
             ELSE IF c < 2048 THEN <<192 + (c \div 64), 128 + (c % 64)>>
             ELSE <<224 + (c \div 4096), 128 + ((c \div 64) % 64), 128 + (c % 64)>>)
            \o utf8(Tail(chars))

\* str.encode('latin-1'): one byte per code point
latin1(chars) == chars

\* the encoding step with the wrong codec
encode_if_str_latin1(value) ==
    IF value.type = "str" THEN latin1(value.chars) ELSE value.bytes

\* if isinstance(data, str): data = data.encode('utf-8')
\* a str value is [type |-> "str", chars |-> code points], a bytes value is
\* [type |-> "bytes", bytes |-> byte values]
encode_if_str(value) ==
    IF value.type = "str" THEN utf8(value.chars) ELSE value.bytes

\* dual_hash(value) of a typed value; the bytes are written out as text
dual_hash_of(value) == dual_hash(ToString(encode_if_str(value)))

------------------------------------------------------------------------------
(* core.py: merkle, verify_merkle_proof; prove.py: generate_merkle_proof *)

\* [dual_hash(json.dumps(i, sort_keys=True)) for i in items]
leaf_hashes(items) == [i \in 1..Len(items) |-> dual_hash(json_dumps(items[i]))]

\* the while loop with both halves of a pair read from the left index
RECURSIVE merkle_reduce_left_twice(_)
merkle_reduce_left_twice(hashes) ==
    IF Len(hashes) > 1
    THEN LET padded == IF Len(hashes) % 2 = 1
                       THEN Append(hashes, hashes[Len(hashes)])
                       ELSE hashes
         IN merkle_reduce_left_twice([k \in 1..(Len(padded) \div 2) |->
                               dual_hash(padded[2 * k - 1] \o padded[2 * k - 1])])
    ELSE hashes[1]

\* the while loop that carries the last hash of an odd level up unpaired
RECURSIVE merkle_reduce_carries_odd(_)
merkle_reduce_carries_odd(hashes) ==
    IF Len(hashes) > 1
    THEN merkle_reduce_carries_odd(
             [k \in 1..((Len(hashes) + 1) \div 2) |->
                 IF 2 * k <= Len(hashes)
                 THEN dual_hash(hashes[2 * k - 1] \o hashes[2 * k])
                 ELSE hashes[2 * k - 1]])
    ELSE hashes[1]

\* the while loop of merkle: pad an odd level with its last hash, combine pairs
RECURSIVE merkle_reduce(_)
merkle_reduce(hashes) ==
    IF Len(hashes) > 1
    THEN LET padded == IF Len(hashes) % 2 = 1
                       THEN Append(hashes, hashes[Len(hashes)])
                       ELSE hashes
         IN merkle_reduce([k \in 1..(Len(padded) \div 2) |->
                               dual_hash(padded[2 * k - 1] \o padded[2 * k])])
    ELSE hashes[1]

merkle(items) ==
    IF items = <<>> THEN dual_hash("empty")
    ELSE merkle_reduce(leaf_hashes(items))

\* a & b on non-negative integers
RECURSIVE BitAnd(_, _)
BitAnd(a, b) ==
    IF a = 0 \/ b = 0 THEN 0
    ELSE (a % 2) * (b % 2) + 2 * BitAnd(a \div 2, b \div 2)

\* the leaf hashes left as they are, with no padding
no_padding(hashes) == hashes

\* while len(hashes) & (len(hashes) - 1): hashes.append(hashes[-1])
RECURSIVE pad_to_power_of_two(_)
pad_to_power_of_two(hashes) ==
    IF BitAnd(Len(hashes), Len(hashes) - 1) # 0
    THEN pad_to_power_of_two(Append(hashes, hashes[Len(hashes)]))
    ELSE hashes

\* the while loop of generate_merkle_proof; pair k (from 0) is the loop
\* iteration i = 2k
RECURSIVE proof_levels(_, _, _)
proof_levels(hashes, index, proof) ==
    IF Len(hashes) > 1
    THEN LET pairs == 0..(((Len(hashes) + 1) \div 2) - 1)
             left(k) == hashes[2 * k + 1]
             right(k) == IF 2 * k + 1 < Len(hashes) THEN hashes[2 * k + 2]
                         ELSE hashes[2 * k + 1]
             sibling == IF (index \div 2) \in pairs
                        THEN IF index % 2 = 0
                             THEN << <<right(index \div 2), "right">> >>
                             ELSE << <<left(index \div 2), "left">> >>
                        ELSE <<>>
             next_level == [k \in 1..Cardinality(pairs) |->
                                dual_hash(left(k - 1) \o right(k - 1))]
         IN proof_levels(next_level, index \div 2, proof \o sibling)
    ELSE proof

\* the last value of hashes in generate_merkle_proof: the root of the tree the
\* while loop builds from the padded leaves
RECURSIVE proof_tree_reduce(_)
proof_tree_reduce(hashes) ==
    IF Len(hashes) > 1
    THEN proof_tree_reduce(
             [k \in 1..((Len(hashes) + 1) \div 2) |->
                 dual_hash(hashes[2 * k - 1]
                           \o (IF 2 * k <= Len(hashes) THEN hashes[2 * k]
                               ELSE hashes[2 * k - 1]))])
    ELSE hashes[1]

proof_tree_root(items) == proof_tree_reduce(pad_to_power_of_two(leaf_hashes(items)))

\* generate_merkle_proof without the target_index >= len(receipts) test
generate_merkle_proof_unguarded(items, target_index) ==
    IF items = <<>> THEN <<>>
    ELSE proof_levels(pad_to_power_of_two(leaf_hashes(items)), target_index, <<>>)

generate_merkle_proof(items, target_index) ==
    IF items = <<>> \/ target_index >= Len(items) THEN <<>>
    ELSE proof_levels(pad_to_power_of_two(leaf_hashes(items)), target_index, <<>>)

\* the for loop of verify_merkle_proof
RECURSIVE fold_proof(_, _)
fold_proof(current_hash, proof) ==
    IF proof = <<>> THEN current_hash
    ELSE fold_proof(IF Head(proof)[2] = "left"
                    THEN dual_hash(Head(proof)[1] \o current_hash)
                    ELSE dual_hash(current_hash \o Head(proof)[1]),
                    Tail(proof))

\* verify_merkle_proof that accepts an empty proof without comparing
verify_merkle_proof_trusts_empty(item, proof, root) ==
    proof = <<>> \/ fold_proof(dual_hash(json_dumps(item)), proof) = root

verify_merkle_proof(item, proof, root) ==
    fold_proof(dual_hash(json_dumps(item)), proof) = root

------------------------------------------------------------------------------
(* Effect traces *)

Ev(kind, arg) == [ev |-> kind, arg |-> arg]

IsTerminal(e) == e.ev \in {"raise", "return"}

\* the effects that happen: everything up to the first raise or return
RECURSIVE Executed(_)
Executed(events) ==
    IF events = <<>> THEN <<>>
    ELSE IF IsTerminal(Head(events)) THEN <<Head(events)>>
    ELSE <<Head(events)>> \o Executed(Tail(events))

\* the trace of a nested call that returned to its caller: its return no
\* longer ends the enclosing operation
Body(events) ==
    [i \in 1..Len(events) |->
        IF events[i].ev = "return" THEN Ev("returned", events[i].arg)
        ELSE events[i]]

Args(events, kind) ==
    LET sel == SelectSeq(events, LAMBDA e : e.ev = kind)
    IN [i \in 1..Len(sel) |-> sel[i].arg]

Outcome(events) == events[Len(events)]

------------------------------------------------------------------------------
(* core.py: emit_receipt *)

\* open(RECEIPTS_FILE, "w"): what the append would be with the wrong mode
open_truncate_write(file, line) == <<line>>

\* with open(RECEIPTS_FILE, "a") as f: f.write(receipt_json + "\n")
open_append_write(file, line) == Append(file, line)

\* the ISO timestamp of clock reading t
IsoTime(t) == "2026-01-01T00:00:0" \o ToString(t) \o "Z"

\* data["tenant_id"] = TENANT_ID whatever the map holds
ensure_tenant_overwrites(data) == DictSet(data, "tenant_id", JsonStr(TENANT_ID))

\* if "tenant_id" not in data: data["tenant_id"] = TENANT_ID
ensure_tenant(data) ==
    IF ~Has(data, "tenant_id")
    THEN DictSet(data, "tenant_id", JsonStr(TENANT_ID))
    ELSE data

\* receipt = {"receipt_type": .., "ts": .., "tenant_id": .., "payload_hash": .., **data}
build_receipt(receipt_type, ts, data) ==
    DictUpdate(
        << <<"receipt_type", JsonStr(receipt_type)>>,
           <<"ts", JsonStr(IsoTime(ts))>>,
           <<"tenant_id", Get(data, "tenant_id", JsonStr(TENANT_ID))>>,
           <<"payload_hash", JsonStr(dual_hash(json_dumps(data)))>> >>,
        data)

\* emit_receipt without the except clause: the IOError of the append leaves
\* the function
emit_receipt_ioerror_propagates(receipt_type, data, to_file, ts, io_ok) ==
    LET data1 == ensure_tenant(data)
        receipt == build_receipt(receipt_type, ts, data1)
        receipt_json == json_dumps(receipt)
    IN [ data |-> data1,
         receipt |-> receipt,
         events |->
             <<Ev("call", [receipt_type |-> receipt_type, data |-> data,
                           to_file |-> to_file]),
               Ev("print", receipt_json)>>
             \o (IF to_file
                 THEN IF io_ok THEN <<Ev("append", receipt_json)>>
                               ELSE <<Ev("ioerror", receipt_json)>>
                 ELSE <<>>)
             \o (IF to_file /\ ~io_ok THEN <<Ev("raise", "IOError")>>
                 ELSE <<Ev("return", receipt)>>) ]

\* emit_receipt(receipt_type, data, to_file) when the clock reads ts and the
\* ledger append succeeds (io_ok) or raises IOError.  Returns the caller's map
\* as the call leaves it, the receipt, and the effects in program order.
emit_receipt(receipt_type, data, to_file, ts, io_ok) ==
    LET data1 == ensure_tenant(data)
        receipt == build_receipt(receipt_type, ts, data1)
        receipt_json == json_dumps(receipt)
    IN [ data |-> data1,
         receipt |-> receipt,
         events |->
             <<Ev("call", [receipt_type |-> receipt_type, data |-> data,
                           to_file |-> to_file]),
               Ev("print", receipt_json)>>
             \o (IF to_file
                 THEN IF io_ok THEN <<Ev("append", receipt_json)>>
                               ELSE <<Ev("ioerror", receipt_json)>>
                 ELSE <<>>)
             \o <<Ev("return", receipt)>> ]

------------------------------------------------------------------------------
(* core.py: StopRule and the three tiers *)

\* StopRule(message, metric=metric, action=action)
StopRule(message, metric, action) ==
    [type |-> "StopRule", message |-> message, metric |-> metric,
     action |-> action]

anomaly_payload(metric, baseline, delta, classification, action) ==
    << <<"metric", JsonStr(metric)>>,
       <<"baseline", JsonMilli(baseline)>>,
       <<"delta", JsonMilli(delta)>>,
       <<"classification", JsonStr(classification)>>,
       <<"action", JsonStr(action)>>,
       <<"tenant_id", JsonStr(TENANT_ID)>> >>

\* stoprule_halt with the raise ahead of the emission
stoprule_halt_raise_first(metric, message, baseline, delta, ts) ==
    <<Ev("raise", StopRule(message, metric, "halt"))>>
    \o Body(emit_receipt("anomaly",
            anomaly_payload(metric, baseline, delta, "violation", "halt"),
            FALSE, ts, TRUE).events)

stoprule_halt(metric, message, baseline, delta, ts) ==
    Body(emit_receipt("anomaly",
            anomaly_payload(metric, baseline, delta, "violation", "halt"),
            FALSE, ts, TRUE).events)
    \o <<Ev("raise", StopRule(message, metric, "halt"))>>

\* stoprule_escalate that returns its receipt as stoprule_alert does
stoprule_escalate_returns(metric, message, baseline, delta, ts) ==
    emit_receipt("anomaly",
        anomaly_payload(metric, baseline, delta, "degradation", "escalate"),
        FALSE, ts, TRUE).events

stoprule_escalate(metric, message, baseline, delta, ts) ==
    Body(emit_receipt("anomaly",
            anomaly_payload(metric, baseline, delta, "degradation", "escalate"),
            FALSE, ts, TRUE).events)
    \o <<Ev("raise", StopRule(message, metric, "escalate"))>>

stoprule_alert(metric, message, baseline, delta, ts) ==
    emit_receipt("anomaly",
        anomaly_payload(metric, baseline, delta, "drift", "alert"),
        FALSE, ts, TRUE).events

------------------------------------------------------------------------------
(* detect/benford.py *)

Abs(x) == IF x < 0 THEN -x ELSE x

\* the while loops of extract_first_digit on a non-zero magnitude
RECURSIVE first_digit(_)
first_digit(v) ==
    IF v >= 10 THEN first_digit(v \div 10)
    ELSE IF v < 1 THEN first_digit(v * 10)
    ELSE v

\* the while loops of extract_second_digit, then int(v) % 10
RECURSIVE second_digit(_)
second_digit(v) ==
    IF v >= 100 THEN second_digit(v \div 10)
    ELSE IF v < 10 THEN second_digit(v * 10)
    ELSE v % 10

\* extract_first_digit / extract_second_digit: zero values are skipped
RECURSIVE extract_digits(_, _)
extract_digits(values, digit_position) ==
    IF values = <<>> THEN <<>>
    ELSE IF Head(values) = 0 THEN extract_digits(Tail(values), digit_position)
    ELSE <<IF digit_position = 1 THEN first_digit(Abs(Head(values)))
                                 ELSE second_digit(Abs(Head(values)))>>
         \o extract_digits(Tail(values), digit_position)

\* the digits the expected-frequency dict of benford_expected has keys for
expected_digits(digit_position) == IF digit_position = 1 THEN 1..9 ELSE 0..9

\* chi_squared_test with the thresholds taken inclusively
chi_squared_test_inclusive(digit_position, n, p) ==
    IF n = 0
    THEN [p_value |-> 1000, pass_fail |-> "insufficient_data",
          degrees_of_freedom |-> Cardinality(expected_digits(digit_position)) - 1]
    ELSE [p_value |-> p,
          pass_fail |-> IF p <= 10 THEN "high_priority_anomaly"
                        ELSE IF p <= 50 THEN "flag_for_investigation"
                        ELSE "pass",
          degrees_of_freedom |-> Cardinality(expected_digits(digit_position)) - 1]

\* chi_squared_test(observed, expected, n), the p-value being p whenever the
\* function computes one.  p_value in thousandths.
chi_squared_test(digit_position, n, p) ==
    IF n = 0
    THEN [p_value |-> 1000, pass_fail |-> "insufficient_data",
          degrees_of_freedom |-> Cardinality(expected_digits(digit_position)) - 1]
    ELSE [p_value |-> p,
          pass_fail |-> IF p < 10 THEN "high_priority_anomaly"
                        ELSE IF p < 50 THEN "flag_for_investigation"
                        ELSE "pass",
          degrees_of_freedom |-> Cardinality(expected_digits(digit_position)) - 1]

\* analyze_benford(values, entity, digit_position)
analyze_benford(values, entity, digit_position, p) ==
    LET digits == extract_digits(values, digit_position)
        test_result == chi_squared_test(digit_position, Len(digits), p)
    IN [entity |-> entity, digit_position |-> digit_position,
        sample_size |-> Len(digits), digits |-> digits,
        p_value |-> test_result.p_value,
        pass_fail |-> test_result.pass_fail,
        degrees_of_freedom |-> test_result.degrees_of_freedom]

benford_payload(analysis, source) ==
    << <<"tenant_id", JsonStr(TENANT_ID)>>,
       <<"entity", JsonStr(analysis.entity)>>,
       <<"source", JsonStr(source)>>,
       <<"chi_squared", IF analysis.sample_size = 0 THEN "0.0"
                        ELSE "chi2(" \o ToString(analysis.digits) \o ")">>,
       <<"p_value", JsonMilli(analysis.p_value)>>,
       <<"pass_fail", JsonStr(analysis.pass_fail)>>,
       <<"digit_position", JsonNum(analysis.digit_position)>>,
       <<"sample_size", JsonNum(analysis.sample_size)>>,
       <<"observed_frequencies", "frequencies(" \o ToString(analysis.digits) \o ")">>,
       <<"expected_frequencies",
         "benford_expected(" \o ToString(analysis.digit_position) \o ")">> >>

\* benford_receipt that alerts on every classification other than "pass"
benford_receipt_alert_unless_pass(data, source, entity, digit_position, p, ts1, ts2) ==
    LET analysis == analyze_benford(data, entity, digit_position, p)
        call == emit_receipt("benford", benford_payload(analysis, source),
                             FALSE, ts1, TRUE)
    IN Body(call.events)
       \o (IF analysis.pass_fail # "pass"
           THEN Body(stoprule_alert("benford_conformity",
                                    "Benford anomaly detected for " \o entity,
                                    50, 50 - analysis.p_value, ts2))
           ELSE <<>>)
       \o <<Ev("return", call.receipt)>>

\* benford_receipt(data, source, entity, digit_position); the clock reads ts1
\* at the first emission and ts2 at the second
benford_receipt(data, source, entity, digit_position, p, ts1, ts2) ==
    LET analysis == analyze_benford(data, entity, digit_position, p)
        call == emit_receipt("benford", benford_payload(analysis, source),
                             FALSE, ts1, TRUE)
    IN Body(call.events)
       \o (IF analysis.pass_fail \in {"flag_for_investigation", "high_priority_anomaly"}
           THEN Body(stoprule_alert("benford_conformity",
                                    "Benford anomaly detected for " \o entity,
                                    50, 50 - analysis.p_value, ts2))
           ELSE <<>>)
       \o <<Ev("return", call.receipt)>>

------------------------------------------------------------------------------
(* detect/entropy.py *)

\* the defaults table of entropy_baseline, in thousandths
default_baseline(entity_type) ==
    CASE entity_type = "municipality" -> [mean |-> 450, std |-> 80, sample_size |-> 100]
      [] entity_type = "state_agency" -> [mean |-> 420, std |-> 60, sample_size |-> 200]
      [] entity_type = "pac" -> [mean |-> 550, std |-> 100, sample_size |-> 150]
      [] entity_type = "contractor" -> [mean |-> 500, std |-> 90, sample_size |-> 80]
      [] OTHER -> [mean |-> 480, std |-> 100, sample_size |-> 50]

\* cache_key = f"{entity_type}:{period}"
cache_key(entity_type, period) == entity_type \o ":" \o period

\* _baseline_cache[key] = baseline
cache_store(cache, key, baseline) ==
    [k \in DOMAIN cache \cup {key} |-> IF k = key THEN baseline ELSE cache[k]]

\* entropy_baseline(entity_type, period): the baseline returned and the cache
\* as the call leaves it
entropy_baseline(cache, entity_type, period) ==
    LET key == cache_key(entity_type, period)
    IN IF key \in DOMAIN cache
       THEN [baseline |-> cache[key], cache |-> cache]
       ELSE [baseline |-> default_baseline(entity_type),
             cache |-> cache_store(cache, key, default_baseline(entity_type))]

\* set_baseline(entity_type, period, mean, std, sample_size)
set_baseline(cache, entity_type, period, mean, std, sample_size) ==
    cache_store(cache, cache_key(entity_type, period),
                [mean |-> mean, std |-> std, sample_size |-> sample_size])

\* compute_z_score dividing by the spread whatever it is
compute_z_score_unguarded(ratio, baseline) ==
    [num |-> ratio - baseline.mean, den |-> baseline.std]

\* compute_z_score(ratio, baseline), as the fraction num/den
compute_z_score(ratio, baseline) ==
    IF baseline.std = 0 THEN [num |-> 0, den |-> 1]
    ELSE [num |-> ratio - baseline.mean, den |-> baseline.std]

\* abs(z) > t, t in thousandths
AbsExceeds(z, t) == Abs(z.num) * 1000 > t * Abs(z.den)

\* entropy_anomaly_check(current, baseline)
entropy_anomaly_check(current, baseline) ==
    LET z_score == compute_z_score(current, baseline)
        verdict == IF AbsExceeds(z_score, 3000) THEN <<TRUE, "critical">>
                   ELSE IF AbsExceeds(z_score, 2000) THEN <<TRUE, "high">>
                   ELSE IF AbsExceeds(z_score, 1500) THEN <<TRUE, "medium">>
                   ELSE <<FALSE, "normal">>
    IN [z_score |-> z_score, is_anomaly |-> verdict[1], severity |-> verdict[2],
        baseline_mean |-> baseline.mean, baseline_std |-> baseline.std]

\* analyze_entropy(data, entity, entity_type, period): a byte string is held
\* as its length, its gzip compression ratio and its Shannon entropy
analyze_entropy(cache, data, entity, entity_type, period) ==
    LET looked == entropy_baseline(cache, entity_type, period)
        anomaly == entropy_anomaly_check(data.ratio, looked.baseline)
    IN [entity |-> entity, entity_type |-> entity_type,
        compression_ratio |-> data.ratio, shannon_entropy |-> data.shannon,
        raw_size |-> data.raw_size,
        compressed_size |-> (data.raw_size * data.ratio) \div 1000,
        z_score |-> anomaly.z_score, is_anomaly |-> anomaly.is_anomaly,
        severity |-> anomaly.severity, baseline_mean |-> anomaly.baseline_mean,
        baseline_std |-> anomaly.baseline_std, cache |-> looked.cache]

entropy_payload(analysis) ==
    << <<"tenant_id", JsonStr(TENANT_ID)>>,
       <<"entity", JsonStr(analysis.entity)>>,
       <<"entity_type", JsonStr(analysis.entity_type)>>,
       <<"compression_ratio", JsonMilli(analysis.compression_ratio)>>,
       <<"z_score", ToString(analysis.z_score.num) \o "/"
                    \o ToString(analysis.z_score.den)>>,
       <<"is_anomaly", JsonBool(analysis.is_anomaly)>>,
       <<"severity", JsonStr(analysis.severity)>>,
       <<"baseline_mean", JsonMilli(analysis.baseline_mean)>>,
       <<"baseline_std", JsonMilli(analysis.baseline_std)>>,
       <<"raw_size", JsonNum(analysis.raw_size)>>,
       <<"compressed_size", JsonNum(analysis.compressed_size)>>,
       <<"shannon_entropy", JsonMilli(analysis.shannon_entropy)>> >>

\* entropy_receipt that alerts only on the critical severity
entropy_receipt_alert_if_critical(cache, entity, data, entity_type, period, ts1, ts2) ==
    LET analysis == analyze_entropy(cache, data, entity, entity_type, period)
        call == emit_receipt("entropy", entropy_payload(analysis), FALSE, ts1, TRUE)
    IN [cache |-> analysis.cache,
        events |->
            Body(call.events)
            \o (IF analysis.severity = "critical"
                THEN Body(stoprule_alert("entropy_deviation",
                        "Entropy anomaly detected for " \o entity,
                        analysis.baseline_mean,
                        analysis.compression_ratio - analysis.baseline_mean, ts2))
                ELSE <<>>)
            \o <<Ev("return", call.receipt)>>]

\* entropy_receipt(entity, data, entity_type, period): the cache as the call
\* leaves it and the effects in program order
entropy_receipt(cache, entity, data, entity_type, period, ts1, ts2) ==
    LET analysis == analyze_entropy(cache, data, entity, entity_type, period)
        call == emit_receipt("entropy", entropy_payload(analysis), FALSE, ts1, TRUE)
    IN [cache |-> analysis.cache,
        events |->
            Body(call.events)
            \o (IF analysis.is_anomaly
                THEN Body(stoprule_alert("entropy_deviation",
                        "Entropy anomaly detected for " \o entity,
                        analysis.baseline_mean,
                        analysis.compression_ratio - analysis.baseline_mean, ts2))
                ELSE <<>>)
            \o <<Ev("return", call.receipt)>>]

------------------------------------------------------------------------------
(* prove.py: ReceiptChain *)

\* add_receipt without the test of is_sealed
add_receipt_ignores_seal(self, receipt) ==
    [self |-> [self EXCEPT
                  !.receipts = Append(self.receipts, receipt),
                  !.merkle_root = merkle(Append(self.receipts, receipt))],
     events |-> <<Ev("return", "None")>>]

\* add_receipt that extends the previous root by the new leaf instead of
\* recomputing the tree
add_receipt_incremental(self, receipt) ==
    IF self.is_sealed
    THEN [self |-> self,
          events |-> <<Ev("raise", "ValueError: Cannot add to sealed chain")>>]
    ELSE [self |-> [self EXCEPT
                       !.receipts = Append(self.receipts, receipt),
                       !.merkle_root =
                           IF self.receipts = <<>>
                           THEN dual_hash(json_dumps(receipt))
                           ELSE dual_hash(self.merkle_root
                                          \o dual_hash(json_dumps(receipt)))],
          events |-> <<Ev("return", "None")>>]

\* ReceiptChain.add_receipt(self, receipt): the object as the call leaves it
\* and the call's outcome
add_receipt(self, receipt) ==
    IF self.is_sealed
    THEN [self |-> self,
          events |-> <<Ev("raise", "ValueError: Cannot add to sealed chain")>>]
    ELSE [self |-> [self EXCEPT
                       !.receipts = Append(self.receipts, receipt),
                       !.merkle_root = merkle(Append(self.receipts, receipt))],
          events |-> <<Ev("return", "None")>>]

\* ReceiptChain.seal(self)
seal(self) ==
    [self |-> [self EXCEPT
                  !.merkle_root = merkle(self.receipts),
                  !.anchor_hash = dual_hash(merkle(self.receipts)),
                  !.is_sealed = TRUE],
     events |-> <<Ev("return", "None")>>]

------------------------------------------------------------------------------
(* prove.py: validate_receipt_chain *)

\* required = ["receipt_type", "ts", "tenant_id", "payload_hash"]
RequiredFields == <<"receipt_type", "ts", "tenant_id", "payload_hash">>

\* the inner for loop: one error per required field that is not in the
\* receipt, in the order of the required list; index counts from 0
receipt_errors(receipt, index) ==
    LET missing == SelectSeq(RequiredFields, LAMBDA f : ~Has(receipt, f))
    IN [k \in 1..Len(missing) |->
            [index |-> index,
             error |-> "missing_field:" \o missing[k],
             receipt_type |-> Get(receipt, "receipt_type", JsonStr("unknown"))]]

\* payload and expected_hash of the loop body: computed for every receipt and
\* compared with nothing
expected_hash(receipt) ==
    dual_hash(json_dumps(Without(receipt, {"receipt_type", "ts", "payload_hash"})))

\* the scan that gives up at the first receipt with an error
RECURSIVE scan_errors_fail_fast(_, _)
scan_errors_fail_fast(receipts_, i) ==
    IF i > Len(receipts_) THEN <<>>
    ELSE IF receipt_errors(receipts_[i], i - 1) # <<>>
    THEN receipt_errors(receipts_[i], i - 1)
    ELSE scan_errors_fail_fast(receipts_, i + 1)

\* the scan that also reports a payload_hash that is not the expected_hash
RECURSIVE scan_errors_checking_hash(_, _)
scan_errors_checking_hash(receipts_, i) ==
    IF i > Len(receipts_) THEN <<>>
    ELSE receipt_errors(receipts_[i], i - 1)
         \o (IF Has(receipts_[i], "payload_hash")
                /\ Get(receipts_[i], "payload_hash", "")
                      # JsonStr(expected_hash(receipts_[i]))
             THEN <<[index |-> i - 1, error |-> "hash_mismatch",
                     receipt_type |-> Get(receipts_[i], "receipt_type",
                                          JsonStr("unknown"))]>>
             ELSE <<>>)
         \o scan_errors_checking_hash(receipts_, i + 1)

\* the for loop over enumerate(receipts), from position i (from 1) on
RECURSIVE scan_errors(_, _)
scan_errors(receipts_, i) ==
    IF i > Len(receipts_) THEN <<>>
    ELSE receipt_errors(receipts_[i], i - 1) \o scan_errors(receipts_, i + 1)

\* validate_receipt_chain(receipts): the dict it returns
validate_receipt_chain(receipts_) ==
    IF receipts_ = <<>>
    THEN [valid |-> TRUE, receipt_count |-> 0, errors |-> <<>>]
    ELSE LET errors == scan_errors(receipts_, 1)
         IN [valid |-> Len(errors) = 0,
             receipt_count |-> Len(receipts_),
             errors |-> errors,
             merkle_root |-> merkle(receipts_)]

------------------------------------------------------------------------------
(* prove.py: create_anchor *)

\* the payload of the "anchor" receipt
anchor_payload(root, batch_size, anchor_hash) ==
    << <<"tenant_id", JsonStr(TENANT_ID)>>,
       <<"merkle_root", JsonStr(root)>>,
       <<"hash_algos", "[\"SHA256\", \"BLAKE3\"]">>,
       <<"batch_size", JsonNum(batch_size)>>,
       <<"anchor_hash", JsonStr(anchor_hash)>> >>

\* create_anchor that returns the anchor of an empty batch without emitting
create_anchor_silent_when_empty(receipts_, anchor_type, ts1, ts2) ==
    LET root == merkle(receipts_)
        anchor == [anchor_type |-> anchor_type,
                   merkle_root |-> root,
                   receipt_count |-> Len(receipts_),
                   anchor_hash |-> dual_hash(root),
                   timestamp |-> IsoTime(ts1)]
    IN (IF receipts_ = <<>> THEN <<>>
        ELSE Body(emit_receipt("anchor",
                 anchor_payload(root, Len(receipts_), anchor.anchor_hash),
                 FALSE, ts2, TRUE).events))
       \o <<Ev("return", anchor)>>

\* create_anchor(receipts, anchor_type): the clock reads ts1 when the anchor
\* dict is built and ts2 when the receipt is emitted
create_anchor(receipts_, anchor_type, ts1, ts2) ==
    LET root == merkle(receipts_)
        anchor == [anchor_type |-> anchor_type,
                   merkle_root |-> root,
                   receipt_count |-> Len(receipts_),
                   anchor_hash |-> dual_hash(root),
                   timestamp |-> IsoTime(ts1)]
    IN Body(emit_receipt("anchor",
               anchor_payload(root, Len(receipts_), anchor.anchor_hash),
               FALSE, ts2, TRUE).events)
       \o <<Ev("return", anchor)>>

------------------------------------------------------------------------------
(* cli.py: cmd_verify, cmd_anchor *)

\* A file is [exists, lines]; a line is blank, the JSON text of a dict
\* ([kind |-> "json", value |-> the dict json.loads gives]) or text that is no
\* JSON.

\* if line.strip()
NonBlank(lines) == SelectSeq(lines, LAMBDA l : l.kind # "blank")

\* json.loads raises JSONDecodeError on some line that is read
LoadsRaises(lines) == \E i \in 1..Len(lines) : lines[i].kind = "garbage"

\* receipts after the loop that reads the file
loaded(lines) ==
    LET read == NonBlank(lines) IN [i \in 1..Len(read) |-> read[i].value]

\* cmd_verify(args) with args.file = path
cmd_verify(file, path, ts) ==
    IF ~file.exists
    THEN LET call == emit_receipt("verify",
                        << <<"tenant_id", JsonStr(TENANT_ID)>>,
                           <<"file", JsonStr(path)>>,
                           <<"status", JsonStr("file_not_found")>>,
                           <<"error", JsonStr("File not found: " \o path)>> >>,
                        FALSE, ts, TRUE)
         IN Body(call.events) \o <<Ev("return", call.receipt)>>
    ELSE IF LoadsRaises(file.lines)
    THEN <<Ev("raise", "JSONDecodeError")>>
    ELSE LET receipts_ == loaded(file.lines)
             call == emit_receipt("verify",
                        << <<"tenant_id", JsonStr(TENANT_ID)>>,
                           <<"receipts_count", JsonNum(Len(receipts_))>>,
                           <<"merkle_root", JsonStr(merkle(receipts_))>>,
                           <<"file", JsonStr(path)>>,
                           <<"status", JsonStr("verified")>> >>,
                        FALSE, ts, TRUE)
         IN Body(call.events) \o <<Ev("return", call.receipt)>>

\* cmd_anchor(args) with args.file = path
cmd_anchor(file, path, ts) ==
    IF ~file.exists
    THEN LET call == emit_receipt("anchor",
                        << <<"tenant_id", JsonStr(TENANT_ID)>>,
                           <<"source_file", JsonStr(path)>>,
                           <<"status", JsonStr("file_not_found")>>,
                           <<"merkle_root", JsonStr(dual_hash("empty"))>>,
                           <<"hash_algos", "[\"SHA256\", \"BLAKE3\"]">>,
                           <<"batch_size", JsonNum(0)>> >>,
                        FALSE, ts, TRUE)
         IN Body(call.events) \o <<Ev("return", call.receipt)>>
    ELSE IF LoadsRaises(file.lines)
    THEN <<Ev("raise", "JSONDecodeError")>>
    ELSE LET receipts_ == loaded(file.lines)
             call == emit_receipt("anchor",
                        << <<"tenant_id", JsonStr(TENANT_ID)>>,
                           <<"merkle_root", JsonStr(merkle(receipts_))>>,
                           <<"hash_algos", "[\"SHA256\", \"BLAKE3\"]">>,
                           <<"batch_size", JsonNum(Len(receipts_))>>,
                           <<"source_file", JsonStr(path)>> >>,
                        FALSE, ts, TRUE)
         IN Body(call.events) \o <<Ev("return", call.receipt)>>

------------------------------------------------------------------------------
(* Running an operation against the process state *)

RECURSIVE WriteAll(_, _)
WriteAll(file, lines) ==
    IF lines = <<>> THEN file
    ELSE WriteAll(open_append_write(file, Head(lines)), Tail(lines))

\* one history record per emit_receipt call of a trace: its arguments, the
\* line it printed, whether its append raised IOError, and what it returned
RECURSIVE Emissions(_)
Emissions(events) ==
    IF events = <<>> THEN <<>>
    ELSE IF Head(events).ev = "call"
    THEN LET to_file == Head(events).arg.to_file
         IN <<[ receipt_type |-> Head(events).arg.receipt_type,
                data |-> Head(events).arg.data,
                to_file |-> to_file,
                line |-> events[2].arg,
                ioerror |-> to_file /\ events[3].ev = "ioerror",
                receipt |-> events[IF to_file THEN 4 ELSE 3].arg ]>>
            \o Emissions(Tail(events))
    ELSE Emissions(Tail(events))

Perform(op, args, data, events, ts) ==
    LET done == Executed(events)
    IN /\ stream' = stream \o Args(done, "print")
       /\ ledger' = WriteAll(ledger, Args(done, "append"))
       /\ log' = log \o Emissions(done)
       /\ last' = [op |-> op, args |-> args, data |-> data, events |-> done]
       /\ now' = ts
       /\ UNCHANGED <<HAS_BLAKE3, receipts, workers, chain>>

------------------------------------------------------------------------------
(* The callers' inputs *)

Entity == <<"entity", JsonStr("dolton")>>
CustomTenant == <<"tenant_id", JsonStr("custom")>>

\* the payload dicts callers pass: with and without a tenant, the same pairs
\* in both insertion orders, and a key of each reserved name
Payloads ==
    { <<>>,
      <<Entity>>,
      <<Entity, CustomTenant>>,
      <<CustomTenant, Entity>>,
      <<Entity, <<"receipt_type", JsonStr("forged")>> >>,
      << <<"ts", JsonStr("1999-12-31T23:59:59Z")>>, Entity>>,
      << <<"payload_hash", JsonStr("feed:beef")>> >> }

------------------------------------------------------------------------------
(* The emitter as a state machine *)

NoCall == [op |-> "none", args |-> <<>>, data |-> <<>>, events |-> <<>>]

\* the callers that may run emit_receipt at the same time
Workers == {"w1", "w2"}
\* no caller is inside emit_receipt
NoWorkers == [w \in Workers |-> [pc |-> "idle", call |-> <<>>]]

\* ReceiptChain(chain_id): the dataclass defaults
NewChain == [chain_id |-> "chain-1", receipts |-> <<>>, merkle_root |-> "",
             anchor_hash |-> "", is_sealed |-> FALSE]

Init ==
    /\ HAS_BLAKE3 \in BOOLEAN
    /\ now = 0
    /\ stream = <<>>
    /\ ledger = <<>>
    /\ log = <<>>
    /\ last = NoCall
    /\ baseline_cache = <<>>
    /\ receipts = <<>>
    /\ workers = NoWorkers
    /\ chain = NewChain

\* a caller runs emit_receipt("ingest", data, to_file)
EmitReceipt ==
    /\ Len(stream) < MaxStream
    /\ \E data \in Payloads, to_file \in BOOLEAN, io_ok \in BOOLEAN, ts \in now..MaxClock :
          /\ (~to_file => io_ok)
          /\ LET call == emit_receipt("ingest", data, to_file, ts, io_ok)
             IN Perform("emit_receipt",
                        [receipt_type |-> "ingest", data |-> data,
                         to_file |-> to_file, ts |-> ts, io_ok |-> io_ok],
                        call.data, call.events, ts)
    /\ UNCHANGED baseline_cache

Next == EmitReceipt

Spec == Init /\ [][Next]_vars

------------------------------------------------------------------------------
(* emit_receipt run by several callers at once *)

\* worker w enters emit_receipt("ingest", data, to_file), builds the receipt
\* and prints its line (core.py lines 78-93); nothing in the function keeps
\* another worker out until the append
WorkerEmit(w) ==
    /\ workers[w].pc = "idle"
    /\ Len(stream) < MaxStream
    /\ \E data \in Payloads, to_file \in BOOLEAN, ts \in now..MaxClock :
          LET call == emit_receipt("ingest", data, to_file, ts, TRUE)
          IN /\ stream' = Append(stream, json_dumps(call.receipt))
             /\ now' = ts
             /\ workers' = [workers EXCEPT ![w] =
                    [pc |-> "printed",
                     call |-> [receipt_type |-> "ingest", data |-> data,
                               to_file |-> to_file, ts |-> ts]]]
    /\ UNCHANGED <<HAS_BLAKE3, ledger, log, last, baseline_cache, receipts, chain>>

\* worker w goes on from its print: the append when to_file is set, which
\* succeeds or raises the IOError that is swallowed, and the return
\* (core.py lines 95-103)
WorkerAppend(w) ==
    /\ workers[w].pc = "printed"
    /\ \E io_ok \in BOOLEAN :
          LET c == workers[w].call
              call == emit_receipt(c.receipt_type, c.data, c.to_file, c.ts, io_ok)
              done == Executed(call.events)
          IN /\ (~c.to_file => io_ok)
             /\ ledger' = WriteAll(ledger, Args(done, "append"))
             /\ log' = log \o Emissions(done)
             /\ last' = [op |-> "emit_receipt",
                         args |-> [receipt_type |-> c.receipt_type,
                                   data |-> c.data, to_file |-> c.to_file,
                                   ts |-> c.ts, io_ok |-> io_ok],
                         data |-> call.data, events |-> done]
    /\ workers' = [workers EXCEPT ![w] = [pc |-> "idle", call |-> <<>>]]
    /\ UNCHANGED <<HAS_BLAKE3, now, stream, baseline_cache, receipts, chain>>

ConcNext == \E w \in Workers : WorkerEmit(w) \/ WorkerAppend(w)

ConcSpec == Init /\ [][ConcNext]_vars

------------------------------------------------------------------------------
(* The StopRule tiers and the Benford detector as a state machine *)

Metrics == {"benford_conformity", "overtime_ratio"}
Deviations == {0, 50}

StopruleHalt ==
    /\ Len(stream) < MaxStream
    /\ \E metric \in Metrics, delta \in Deviations, ts \in now..MaxClock :
          Perform("stoprule_halt",
                  [metric |-> metric, message |-> "halt: " \o metric],
                  <<>>,
                  stoprule_halt(metric, "halt: " \o metric, 0, delta, ts), ts)
    /\ UNCHANGED baseline_cache

StopruleEscalate ==
    /\ Len(stream) < MaxStream
    /\ \E metric \in Metrics, delta \in Deviations, ts \in now..MaxClock :
          Perform("stoprule_escalate",
                  [metric |-> metric, message |-> "escalate: " \o metric],
                  <<>>,
                  stoprule_escalate(metric, "escalate: " \o metric, 0, delta, ts), ts)
    /\ UNCHANGED baseline_cache

StopruleAlert ==
    /\ Len(stream) < MaxStream
    /\ \E metric \in Metrics, delta \in Deviations, ts \in now..MaxClock :
          Perform("stoprule_alert",
                  [metric |-> metric, message |-> "alert: " \o metric],
                  <<>>,
                  stoprule_alert(metric, "alert: " \o metric, 0, delta, ts), ts)
    /\ UNCHANGED baseline_cache

\* the amounts a dataset is made of, in whole dollars
Amounts == {0, 25, -9}
MaxData == 2
Datasets == UNION {[1..n -> Amounts] : n \in 0..MaxData}

\* the p-values _chi2_pvalue_approx can return, in thousandths: both sides of
\* each threshold, and the two ends of the range
PValues == {0, 9, 10, 49, 50, 1000}

BenfordReceipt ==
    /\ Len(stream) + 2 <= MaxStream
    /\ \E data \in Datasets, digit_position \in {1, 2}, p \in PValues,
          ts1 \in now..MaxClock :
          \E ts2 \in ts1..MaxClock :
             LET events == benford_receipt(data, "ledger", "dolton",
                                           digit_position, p, ts1, ts2)
                 analysis == analyze_benford(data, "dolton", digit_position, p)
             IN /\ (analysis.sample_size = 0 => p = 1000)
                /\ (Len(Args(events, "print")) = 1 => ts2 = ts1)
                /\ Perform("benford_receipt",
                           [data |-> data, digit_position |-> digit_position,
                            pass_fail |-> analysis.pass_fail],
                           <<>>, events, ts2)
    /\ UNCHANGED baseline_cache

StopNext == StopruleHalt \/ StopruleEscalate \/ StopruleAlert \/ BenfordReceipt

StopSpec == Init /\ [][StopNext]_vars

------------------------------------------------------------------------------
(* The entropy detector and its baseline cache as a state machine *)

\* the (entity_type, period) pairs callers use
BaselinePairs == {<<"pac", "q1">>, <<"pac", "q1:q1">>, <<"pac:q1", "q1">>}
\* the baseline a caller sets: one with no spread
SetBaselines == { [mean |-> 500, std |-> 0, sample_size |-> 10] }

\* byte strings by length, compression ratio and Shannon entropy (thousandths);
\* compute_compression_ratio and shannon_entropy give 1.0 and 0.0 for b""
ByteStrings ==
    { [raw_size |-> 0, ratio |-> 1000, shannon |-> 0],
      [raw_size |-> 1000, ratio |-> 550, shannon |-> 4200],
      [raw_size |-> 1000, ratio |-> 700, shannon |-> 5000],
      [raw_size |-> 1000, ratio |-> 701, shannon |-> 5000] }

SetBaseline ==
    /\ \E pair \in BaselinePairs, b \in SetBaselines :
          /\ baseline_cache' = set_baseline(baseline_cache, pair[1], pair[2],
                                            b.mean, b.std, b.sample_size)
          /\ last' = [op |-> "set_baseline",
                      args |-> [entity_type |-> pair[1], period |-> pair[2],
                                baseline |-> b],
                      data |-> <<>>, events |-> <<Ev("return", "None")>>]
    /\ UNCHANGED <<HAS_BLAKE3, now, stream, ledger, log, receipts, workers, chain>>

EntropyBaseline ==
    /\ \E pair \in BaselinePairs :
          LET looked == entropy_baseline(baseline_cache, pair[1], pair[2])
          IN /\ baseline_cache' = looked.cache
             /\ last' = [op |-> "entropy_baseline",
                         args |-> [entity_type |-> pair[1], period |-> pair[2]],
                         data |-> <<>>,
                         events |-> <<Ev("return", looked.baseline)>>]
    /\ UNCHANGED <<HAS_BLAKE3, now, stream, ledger, log, receipts, workers, chain>>

EntropyReceipt ==
    /\ Len(stream) + 2 <= MaxStream
    /\ \E data \in ByteStrings, pair \in BaselinePairs, ts1 \in now..MaxClock :
          \E ts2 \in ts1..MaxClock :
             LET run == entropy_receipt(baseline_cache, "dolton", data,
                                        pair[1], pair[2], ts1, ts2)
             IN /\ (Len(Args(run.events, "print")) = 1 => ts2 = ts1)
                /\ Perform("entropy_receipt",
                           [data |-> data, entity_type |-> pair[1],
                            period |-> pair[2],
                            baseline |-> entropy_baseline(baseline_cache,
                                             pair[1], pair[2]).baseline],
                           <<>>, run.events, ts2)
                /\ baseline_cache' = run.cache

EntropyNext == SetBaseline \/ EntropyBaseline \/ EntropyReceipt

EntropySpec == Init /\ [][EntropyNext]_vars

------------------------------------------------------------------------------
(* The Merkle functions applied to a receipt list *)

ReceiptA == << <<"entity", JsonStr("dolton")>>, <<"amount", JsonNum(1)>> >>
\* ReceiptA with one field changed
ReceiptB == << <<"entity", JsonStr("dolton")>>, <<"amount", JsonNum(2)>> >>
\* the pairs of ReceiptA inserted in the other order
ReceiptA2 == << <<"amount", JsonNum(1)>>, <<"entity", JsonStr("dolton")>> >>

ReceiptPool == {ReceiptA, ReceiptB}
Items == {ReceiptA, ReceiptB, ReceiptA2}

MerkleInit ==
    /\ HAS_BLAKE3 \in BOOLEAN
    /\ now = 0
    /\ stream = <<>>
    /\ ledger = <<>>
    /\ log = <<>>
    /\ last = NoCall
    /\ baseline_cache = <<>>
    /\ receipts \in UNION {[1..n -> ReceiptPool] : n \in 0..MaxReceipts}
    /\ workers = NoWorkers
    /\ chain = NewChain

Merkle ==
    /\ last' = [op |-> "merkle", args |-> [items |-> receipts], data |-> <<>>,
                events |-> <<Ev("return", merkle(receipts))>>]
    /\ UNCHANGED <<HAS_BLAKE3, now, stream, ledger, log, baseline_cache, receipts,
                   workers, chain>>

GenerateMerkleProof ==
    /\ \E target_index \in -2..(Len(receipts) + 1) :
          last' = [op |-> "generate_merkle_proof",
                   args |-> [target_index |-> target_index], data |-> <<>>,
                   events |-> <<Ev("return",
                                   generate_merkle_proof(receipts, target_index))>>]
    /\ UNCHANGED <<HAS_BLAKE3, now, stream, ledger, log, baseline_cache, receipts,
                   workers, chain>>

\* verify_merkle_proof(item, generate_merkle_proof(receipts, i), merkle(receipts))
VerifyMerkleProof ==
    /\ \E target_index \in 0..(Len(receipts) - 1), item \in Items :
          last' = [op |-> "verify_merkle_proof",
                   args |-> [item |-> item, target_index |-> target_index],
                   data |-> <<>>,
                   events |-> <<Ev("return",
                       verify_merkle_proof(item,
                           generate_merkle_proof(receipts, target_index),
                           merkle(receipts)))>>]
    /\ UNCHANGED <<HAS_BLAKE3, now, stream, ledger, log, baseline_cache, receipts,
                   workers, chain>>

MerkleNext == Merkle \/ GenerateMerkleProof \/ VerifyMerkleProof

MerkleSpec == MerkleInit /\ [][MerkleNext]_vars

------------------------------------------------------------------------------
(* Validation and anchoring of a loaded receipt list *)

MaxBatch == 3

\* a receipt as emit_receipt returned it
GoodReceipt == build_receipt("ingest", 0, ensure_tenant(<<Entity>>))
\* the same with a payload_hash that is not the hash of its content
ForgedReceipt == DictSet(GoodReceipt, "payload_hash", JsonStr("feed:beef"))
\* the same without its ts and payload_hash
PartialReceipt == Without(GoodReceipt, {"ts", "payload_hash"})
\* a dict with none of the required fields
BareReceipt == <<Entity>>

LedgerPool == {GoodReceipt, ForgedReceipt, PartialReceipt, BareReceipt}

ProveInit ==
    /\ HAS_BLAKE3 \in BOOLEAN
    /\ now = 0
    /\ stream = <<>>
    /\ ledger = <<>>
    /\ log = <<>>
    /\ last = NoCall
    /\ baseline_cache = <<>>
    /\ receipts \in UNION {[1..n -> LedgerPool] : n \in 0..MaxBatch}
    /\ workers = NoWorkers
    /\ chain = NewChain

\* the batches that are anchored: emitted receipts and other dicts
AnchorPool == {GoodReceipt, BareReceipt}

AnchorInit ==
    /\ HAS_BLAKE3 \in BOOLEAN
    /\ now = 0
    /\ stream = <<>>
    /\ ledger = <<>>
    /\ log = <<>>
    /\ last = NoCall
    /\ baseline_cache = <<>>
    /\ receipts \in UNION {[1..n -> AnchorPool] : n \in 0..MaxBatch}
    /\ workers = NoWorkers
    /\ chain = NewChain

ValidateReceiptChain ==
    /\ last' = [op |-> "validate_receipt_chain", args |-> [receipts |-> receipts],
                data |-> <<>>,
                events |-> <<Ev("return", validate_receipt_chain(receipts))>>]
    /\ UNCHANGED <<HAS_BLAKE3, now, stream, ledger, log, baseline_cache, receipts,
                   workers, chain>>

CreateAnchor ==
    /\ Len(stream) < MaxStream
    /\ \E ts1 \in now..MaxClock :
          \E ts2 \in ts1..MaxClock :
             Perform("create_anchor",
                     [receipts |-> receipts, anchor_type |-> "merkle"],
                     <<>>,
                     create_anchor(receipts, "merkle", ts1, ts2), ts2)
    /\ UNCHANGED baseline_cache

ProveNext == ValidateReceiptChain

ProveSpec == ProveInit /\ [][ProveNext]_vars

AnchorNext == CreateAnchor

AnchorSpec == AnchorInit /\ [][AnchorNext]_vars

------------------------------------------------------------------------------
(* A ReceiptChain object as a state machine *)

\* chain.add_receipt(receipt)
ChainAddReceipt ==
    /\ chain.is_sealed \/ Len(chain.receipts) < MaxBatch
    /\ \E receipt \in Items :
          LET call == add_receipt(chain, receipt)
          IN /\ chain' = call.self
             /\ last' = [op |-> "add_receipt", args |-> [receipt |-> receipt],
                         data |-> <<>>, events |-> call.events]
    /\ UNCHANGED <<HAS_BLAKE3, now, stream, ledger, log, baseline_cache, receipts,
                   workers>>

\* chain.seal()
ChainSeal ==
    /\ LET call == seal(chain)
       IN /\ chain' = call.self
          /\ last' = [op |-> "seal", args |-> <<>>, data |-> <<>>,
                      events |-> call.events]
    /\ UNCHANGED <<HAS_BLAKE3, now, stream, ledger, log, baseline_cache, receipts,
                   workers>>

ChainNext == ChainAddReceipt \/ ChainSeal

ChainSpec == Init /\ [][ChainNext]_vars

------------------------------------------------------------------------------
(* dual_hash called in one process run after another *)

MaxCalls == 2

\* "a" and "é" as str, their UTF-8 encodings as bytes, and the Latin-1
\* encoding of "é"
HashInputs ==
    { [type |-> "str", chars |-> <<97>>],
      [type |-> "bytes", bytes |-> <<97>>],
      [type |-> "str", chars |-> <<233>>],
      [type |-> "bytes", bytes |-> <<195, 169>>],
      [type |-> "bytes", bytes |-> <<233>>] }

\* a caller runs dual_hash(value); the history keeps the call, its result and
\* whether blake3 was importable in the process that ran it
DualHash ==
    /\ Len(log) < MaxCalls
    /\ \E value \in HashInputs :
          /\ log' = Append(log, [value |-> value, result |-> dual_hash_of(value),
                                 has_blake3 |-> HAS_BLAKE3])
          /\ last' = [op |-> "dual_hash", args |-> [value |-> value],
                      data |-> <<>>,
                      events |-> <<Ev("return", dual_hash_of(value))>>]
    /\ UNCHANGED <<HAS_BLAKE3, now, stream, ledger, baseline_cache, receipts,
                   workers, chain>>

\* the process ends and another starts: core.py is imported again and the
\* blake3 import succeeds or fails in the new environment
Restart ==
    /\ last.op # "restart"
    /\ HAS_BLAKE3' \in BOOLEAN
    /\ last' = [op |-> "restart", args |-> <<>>, data |-> <<>>, events |-> <<>>]
    /\ UNCHANGED <<now, stream, ledger, log, baseline_cache, receipts, workers,
                   chain>>

HashNext == DualHash \/ Restart

HashSpec == Init /\ [][HashNext]_vars

------------------------------------------------------------------------------
(* The verify and anchor commands run on a file *)

\* the lines a file given to the commands can hold
FileLines ==
    { [kind |-> "blank"],
      [kind |-> "json", value |-> SortItems(GoodReceipt)],
      [kind |-> "json", value |-> BareReceipt],
      [kind |-> "garbage"] }

\* the file at args.file, held in ledger: absent, or its lines
CliInit ==
    /\ HAS_BLAKE3 \in BOOLEAN
    /\ now = 0
    /\ stream = <<>>
    /\ ledger \in {[exists |-> FALSE, lines |-> <<>>]}
                  \cup {[exists |-> TRUE, lines |-> l] :
                           l \in UNION {[1..n -> FileLines] : n \in 0..MaxBatch}}
    /\ log = <<>>
    /\ last = NoCall
    /\ baseline_cache = <<>>
    /\ receipts = <<>>
    /\ workers = NoWorkers
    /\ chain = NewChain

CmdVerify ==
    /\ Len(stream) < MaxStream
    /\ \E ts \in now..MaxClock :
          Perform("cmd_verify", [file |-> "receipts.jsonl"], <<>>,
                  cmd_verify(ledger, "receipts.jsonl", ts), ts)
    /\ UNCHANGED baseline_cache

CmdAnchor ==
    /\ Len(stream) < MaxStream
    /\ \E ts \in now..MaxClock :
          Perform("cmd_anchor", [file |-> "receipts.jsonl"], <<>>,
                  cmd_anchor(ledger, "receipts.jsonl", ts), ts)
    /\ UNCHANGED baseline_cache

CliNext == CmdVerify \/ CmdAnchor

CliSpec == CliInit /\ [][CliNext]_vars

------------------------------------------------------------------------------
(* chi_squared_test applied to a sample *)

\* chi_squared_test on the Benford frequencies of digit_position with sample
\* size n; p is the value _chi2_pvalue_approx gives when it is called
ChiSquaredTest ==
    /\ Len(log) < MaxCalls
    /\ \E digit_position \in {1, 2}, n \in 0..MaxData, p \in PValues :
          LET result == chi_squared_test(digit_position, n, p)
          IN /\ (n = 0 => p = 1000)
             /\ log' = Append(log, result)
             /\ last' = [op |-> "chi_squared_test",
                         args |-> [digit_position |-> digit_position, n |-> n],
                         data |-> <<>>,
                         events |-> <<Ev("return", result)>>]
    /\ UNCHANGED <<HAS_BLAKE3, now, stream, ledger, baseline_cache, receipts,
                   workers, chain>>

ChiNext == ChiSquaredTest

ChiSpec == Init /\ [][ChiNext]_vars

------------------------------------------------------------------------------
(* entropy_anomaly_check applied to a ratio and a baseline *)

\* compression ratios in thousandths, on both sides of every threshold of the
\* baselines below
Ratios == {0, 349, 350, 500, 650, 651, 700, 701, 800, 801, 1000}

\* baselines with no spread and with a spread
Baselines ==
    { [mean |-> 500, std |-> 0, sample_size |-> 10],
      [mean |-> 500, std |-> 100, sample_size |-> 10],
      [mean |-> 650, std |-> 50, sample_size |-> 100] }

EntropyAnomalyCheck ==
    /\ Len(log) < MaxCalls
    /\ \E current \in Ratios, baseline \in Baselines :
          LET result == entropy_anomaly_check(current, baseline)
          IN /\ log' = Append(log, result)
             /\ last' = [op |-> "entropy_anomaly_check",
                         args |-> [current |-> current, baseline |-> baseline],
                         data |-> <<>>,
                         events |-> <<Ev("return", result)>>]
    /\ UNCHANGED <<HAS_BLAKE3, now, stream, ledger, baseline_cache, receipts,
                   workers, chain>>

AnomalyNext == EntropyAnomalyCheck

AnomalySpec == Init /\ [][AnomalyNext]_vars

------------------------------------------------------------------------------
(* A receipt list of odd length and the same list with its last receipt
   appended again *)

MaxOdd == 11

\* lists of odd length from 3 to MaxOdd in which every second or every third
\* receipt is one receipt of the pool and the others are another
OddLists ==
    { [i \in 1..n |-> IF i % m = 0 THEN a ELSE b] :
          n \in {k \in 3..MaxOdd : k % 2 = 1}, m \in {2, 3},
          a \in ReceiptPool, b \in ReceiptPool }

OddInit ==
    /\ HAS_BLAKE3 \in BOOLEAN
    /\ now = 0
    /\ stream = <<>>
    /\ ledger = <<>>
    /\ log = <<>>
    /\ last = NoCall
    /\ baseline_cache = <<>>
    /\ receipts \in OddLists
    /\ workers = NoWorkers
    /\ chain = NewChain

\* verify_merkle_proof(R[-1], generate_merkle_proof(R + [R[-1]], i), merkle(R))
\* for i the index of the appended duplicate or of the receipt it repeats
VerifyDuplicate ==
    /\ \E target_index \in {Len(receipts) - 1, Len(receipts)} :
          LET appended == Append(receipts, receipts[Len(receipts)])
          IN last' = [op |-> "verify_duplicate",
                      args |-> [items |-> appended, target_index |-> target_index],
                      data |-> <<>>,
                      events |-> <<Ev("return",
                          verify_merkle_proof(appended[target_index + 1],
                              generate_merkle_proof(appended, target_index),
                              merkle(receipts)))>>]
    /\ UNCHANGED <<HAS_BLAKE3, now, stream, ledger, log, baseline_cache, receipts,
                   workers, chain>>

OddNext == VerifyDuplicate

OddSpec == OddInit /\ [][OddNext]_vars

------------------------------------------------------------------------------
(* Claims about Merkle proofs *)

IsVerify == last.op = "verify_merkle_proof"
Verdict == Outcome(last.events).arg

\* C1 (as claimed): for every non-empty receipt list R and every index i with
\* 0 <= i < len(R), verify_merkle_proof(R[i], generate_merkle_proof(R, i),
\* merkle(R)) returns True.
C1_ProofSoundness ==
    (IsVerify /\ last.args.item = receipts[last.args.target_index + 1])
        => Verdict = TRUE

\* C2: for every receipt list R, valid index i and receipt r' that differs
\* from R[i] in at least one field, verify_merkle_proof(r',
\* generate_merkle_proof(R, i), merkle(R)) returns False.
C2_ProofRejectsChangedReceipt ==
    (IsVerify /\ ~SameDict(last.args.item, receipts[last.args.target_index + 1]))
        => Verdict = FALSE

\* a changed receipt was checked against the proof of a receipt in the middle
\* of a five-element list and was rejected
C2_Witness ==
    /\ IsVerify
    /\ Len(receipts) = 5
    /\ last.args.target_index = 2
    /\ last.args.item = ReceiptB
    /\ receipts[3] = ReceiptA
    /\ Verdict = FALSE

------------------------------------------------------------------------------
(* Claims about the StopRule tiers and the detectors *)

StopruleOps == {"stoprule_halt", "stoprule_escalate", "stoprule_alert"}

\* the emit_receipt calls of the last operation, in program order
Calls == Args(last.events, "call")
CallTypes == [i \in 1..Len(Calls) |-> Calls[i].receipt_type]

\* the positions in a trace at which a line is printed
PrintsAt(events) == {i \in 1..Len(events) : events[i].ev = "print"}

Anomalies(history) == SelectSeq(history, LAMBDA c : c.receipt_type = "anomaly")

\* C3: each of stoprule_halt, stoprule_escalate and stoprule_alert prints
\* exactly one "anomaly" receipt, ahead of its raise or return, and every such
\* evaluation adds one anomaly receipt to the record of emitted receipts.
C3_StopruleEmitsBeforeSignal ==
    /\ [](last.op \in StopruleOps =>
            /\ Cardinality(PrintsAt(last.events)) = 1
            /\ \A i \in PrintsAt(last.events) : i < Len(last.events)
            /\ IsTerminal(Outcome(last.events))
            /\ CallTypes = <<"anomaly">>
            /\ stream[Len(stream)] = log[Len(log)].line
            /\ log[Len(log)].receipt_type = "anomaly")
    /\ [][last'.op \in StopruleOps =>
            /\ Len(stream') = Len(stream) + 1
            /\ Len(Anomalies(log')) = Len(Anomalies(log)) + 1]_vars

\* stoprule_halt raised after a first evaluation had already been recorded
C3_Witness ==
    /\ last.op = "stoprule_halt"
    /\ Outcome(last.events).ev = "raise"
    /\ Len(Anomalies(log)) = 2

LastReceipt == log[Len(log)].receipt

\* C4: stoprule_halt and stoprule_escalate never return and raise StopRule
\* with the given metric and action "halt" resp. "escalate", their receipt
\* classified "violation" resp. "degradation"; stoprule_alert never raises and
\* returns the receipt it emitted, classified "drift" with action "alert".
C4_OutcomeFixedByTier ==
    /\ last.op = "stoprule_halt" =>
          /\ Outcome(last.events) = Ev("raise",
                 StopRule(last.args.message, last.args.metric, "halt"))
          /\ Get(LastReceipt, "classification", "") = JsonStr("violation")
          /\ Get(LastReceipt, "action", "") = JsonStr("halt")
    /\ last.op = "stoprule_escalate" =>
          /\ Outcome(last.events) = Ev("raise",
                 StopRule(last.args.message, last.args.metric, "escalate"))
          /\ Get(LastReceipt, "classification", "") = JsonStr("degradation")
          /\ Get(LastReceipt, "action", "") = JsonStr("escalate")
    /\ last.op = "stoprule_alert" =>
          /\ Outcome(last.events) = Ev("return", LastReceipt)
          /\ \A i \in 1..Len(last.events) : last.events[i].ev # "raise"
          /\ Get(LastReceipt, "classification", "") = JsonStr("drift")
          /\ Get(LastReceipt, "action", "") = JsonStr("alert")
          /\ Get(LastReceipt, "metric", "") = JsonStr(last.args.metric)

C4_Witness ==
    /\ last.op = "stoprule_escalate"
    /\ Outcome(last.events).ev = "raise"
    /\ Outcome(last.events).arg.metric = "overtime_ratio"

IsBenford == last.op = "benford_receipt"

\* the anomaly receipts of the last operation are of the alert tier
AlertsOnly ==
    \A i \in 1..Len(Calls) :
        Calls[i].receipt_type = "anomaly"
            => Get(Calls[i].data, "action", "") = JsonStr("alert")

\* C5 (as claimed): benford_receipt returns normally, emits the "benford"
\* receipt first and then exactly one alert-tier "anomaly" receipt whenever
\* the classification is anything other than "pass", "insufficient_data"
\* included, and no "anomaly" receipt when it is "pass".
C5_AlertUnlessPass ==
    IsBenford =>
        /\ Outcome(last.events).ev = "return"
        /\ AlertsOnly
        /\ CallTypes = IF last.args.pass_fail # "pass"
                       THEN <<"benford", "anomaly">>
                       ELSE <<"benford">>

\* C5 (amended): benford_receipt returns normally, emits the "benford"
\* receipt first and then exactly one alert-tier "anomaly" receipt when the
\* classification is "flag_for_investigation" or "high_priority_anomaly", and
\* no "anomaly" receipt when it is "pass" or "insufficient_data".
C5_AlertWhenFlagged ==
    IsBenford =>
        /\ Outcome(last.events).ev = "return"
        /\ Outcome(last.events).arg = log[Len(log) - Len(Calls) + 1].receipt
        /\ AlertsOnly
        /\ CallTypes = IF last.args.pass_fail
                            \in {"flag_for_investigation", "high_priority_anomaly"}
                       THEN <<"benford", "anomaly">>
                       ELSE <<"benford">>
        /\ Cardinality(PrintsAt(last.events)) = Len(Calls)

\* an empty sample was classified "insufficient_data" and only the benford
\* receipt was printed
C5_Witness ==
    /\ IsBenford
    /\ last.args.pass_fail = "insufficient_data"
    /\ Len(stream) = 1

IsEntropy == last.op = "entropy_receipt"

\* |z| > 1.5 for z = (ratio - mean) / std, and z = 0.0 when std = 0
ZBeyondThreshold(ratio, baseline) ==
    /\ baseline.std # 0
    /\ 2 * Abs(ratio - baseline.mean) > 3 * Abs(baseline.std)

\* C6: entropy_receipt returns normally, emits the "entropy" receipt first and
\* then exactly one alert-tier "anomaly" receipt if and only if is_anomaly is
\* true, which is the case exactly when |z| > 1.5.
C6_AlertIffAnomaly ==
    IsEntropy =>
        LET anomalous == ZBeyondThreshold(last.args.data.ratio, last.args.baseline)
        IN /\ Outcome(last.events).ev = "return"
           /\ Outcome(last.events).arg = log[Len(log) - Len(Calls) + 1].receipt
           /\ Get(Outcome(last.events).arg, "is_anomaly", "") = JsonBool(anomalous)
           /\ AlertsOnly
           /\ CallTypes = IF anomalous THEN <<"entropy", "anomaly">>
                          ELSE <<"entropy">>
           /\ Cardinality(PrintsAt(last.events)) = Len(Calls)

\* a ratio just beyond 1.5 standard deviations of the pac default baseline
\* was reported with an alert
C6_Witness ==
    /\ IsEntropy
    /\ last.args.data.ratio = 701
    /\ last.args.baseline = default_baseline("pac")
    /\ CallTypes = <<"entropy", "anomaly">>

------------------------------------------------------------------------------
(* Claims about emit_receipt *)

IsEmit == last.op = "emit_receipt"
Returned == Outcome(last.events).arg
Reserved == {"receipt_type", "ts", "payload_hash"}

\* C7 (as claimed): in the receipt emit_receipt returns and prints, the keys
\* receipt_type, ts, tenant_id and payload_hash hold the emitter's values (the
\* receipt_type argument, the emission timestamp, the tenant id, the hash
\* computed over the payload), also when the payload has keys of those names.
C7_ReservedKeysHoldEmitterValues ==
    IsEmit =>
        /\ Get(Returned, "receipt_type", "") = JsonStr(last.args.receipt_type)
        /\ Get(Returned, "ts", "") = JsonStr(IsoTime(last.args.ts))
        /\ Get(Returned, "tenant_id", "") = Get(last.data, "tenant_id", "")
        /\ Get(Returned, "payload_hash", "")
               = JsonStr(dual_hash(json_dumps(last.data)))
        /\ stream[Len(stream)] = json_dumps(Returned)

\* C8 (as claimed): removing receipt_type, ts and payload_hash from the
\* emitted receipt and hashing the sorted-key JSON of what is left reproduces
\* the receipt's payload_hash.
C8_StrippedReceiptRehashes ==
    IsEmit =>
        Get(Returned, "payload_hash", "")
            = JsonStr(dual_hash(json_dumps(Without(Returned, Reserved))))

\* C9: any two emit_receipt calls whose payloads hold the same key/value
\* pairs produce the same payload_hash, whatever the insertion order was.
C9_HashIgnoresInsertionOrder ==
    \A i, j \in 1..Len(log) :
        SameDict(log[i].data, log[j].data)
            => Get(log[i].receipt, "payload_hash", "")
                   = Get(log[j].receipt, "payload_hash", "")

\* two calls were made with the same pairs inserted in different orders
C9_Witness ==
    \E i, j \in 1..Len(log) :
        /\ SameDict(log[i].data, log[j].data)
        /\ log[i].data # log[j].data
        /\ ~Has(log[i].data, "payload_hash")

\* the lines of the calls made with to_file=True whose append did not fail
FiledLines(history) ==
    LET filed == SelectSeq(history, LAMBDA c : c.to_file /\ ~c.ioerror)
    IN [i \in 1..Len(filed) |-> filed[i].line]

PrintedLines(history) == [i \in 1..Len(history) |-> history[i].line]

IsPrefix(s, t) == Len(s) <= Len(t) /\ SubSeq(t, 1, Len(s)) = s

\* C10: the ledger holds exactly one line per call made with to_file=True
\* whose append succeeded, in call order, each the line that call printed to
\* the stream; and no step removes or rewrites a line already in the ledger.
C10_LedgerAppendOnlyOrdered ==
    /\ [](/\ ledger = FiledLines(log)
          /\ stream = PrintedLines(log))
    /\ [][IsPrefix(ledger, ledger')]_vars

\* a filed call, then a call that did not file, then the ledger still holds
\* the first line; and two filed lines in order
C10_Witness ==
    /\ Len(log) = 2
    /\ log[1].to_file /\ ~log[1].ioerror
    /\ log[2].to_file /\ ~log[2].ioerror
    /\ log[1].line # log[2].line
    /\ ledger = <<log[1].line, log[2].line>>

\* C11: when the ledger append fails with an I/O error, emit_receipt has
\* already printed the receipt to the stream, raises nothing (no IOError, no
\* StopRule), returns the receipt and leaves the ledger as it was; and a call
\* whose append succeeds adds its line to the ledger whatever failed before.
C11_AppendFailureSwallowed ==
    /\ [](IsEmit /\ last.args.to_file /\ ~last.args.io_ok =>
            /\ \E i, j \in 1..Len(last.events) :
                  /\ i < j
                  /\ last.events[i].ev = "print"
                  /\ last.events[i].arg = log[Len(log)].line
                  /\ last.events[j].ev = "ioerror"
            /\ \A i \in 1..Len(last.events) : last.events[i].ev # "raise"
            /\ Outcome(last.events).ev = "return"
            /\ Returned = log[Len(log)].receipt
            /\ stream[Len(stream)] = json_dumps(Returned))
    /\ [][(last'.op = "emit_receipt" /\ last'.args.to_file /\ ~last'.args.io_ok)
            => /\ ledger' = ledger
               /\ Len(stream') = Len(stream) + 1]_vars
    /\ [][(last'.op = "emit_receipt" /\ last'.args.to_file /\ last'.args.io_ok)
            => ledger' = Append(ledger, stream'[Len(stream')])]_vars

\* an append failed and the next call filed its line
C11_Witness ==
    /\ Len(log) = 2
    /\ log[1].to_file /\ log[1].ioerror
    /\ log[2].to_file /\ ~log[2].ioerror
    /\ ledger = <<log[2].line>>
    /\ Len(stream) = 2

------------------------------------------------------------------------------
(* Claims about emit_receipt under concurrency *)

\* s can be obtained from t by dropping elements: the elements of s appear in
\* t in the same order
RECURSIVE IsSubsequence(_, _)
IsSubsequence(s, t) ==
    IF s = <<>> THEN TRUE
    ELSE IF t = <<>> THEN FALSE
    ELSE IF Head(s) = Head(t) THEN IsSubsequence(Tail(s), Tail(t))
    ELSE IsSubsequence(s, Tail(t))

\* C12 (as claimed): with two workers running emit_receipt concurrently, the
\* lines of the ledger are in the order in which the same receipts were
\* written to the stream.
C12_AppendOrderIsEmissionOrder == IsSubsequence(ledger, stream)

------------------------------------------------------------------------------
(* Claims about validate_receipt_chain *)

IsValidate == last.op = "validate_receipt_chain"

\* the pairs (index from 0, required field) whose field is missing
MissingPairs ==
    {<<i, f>> \in (0..(Len(receipts) - 1)) \X {"receipt_type", "ts", "tenant_id",
                                               "payload_hash"} :
        \A k \in 1..Len(receipts[i + 1]) : receipts[i + 1][k][1] # f}

\* C13: validate_receipt_chain scans every receipt: its errors list has
\* exactly one entry for each pair (index i, required field f) with f missing
\* from receipts[i], in index order, and valid is true exactly when the list
\* is empty.
C13_CollectsEveryMissingField ==
    IsValidate =>
        LET result == Outcome(last.events).arg
            errors == result.errors
        IN /\ Outcome(last.events).ev = "return"
           /\ Len(errors) = Cardinality(MissingPairs)
           /\ \A pair \in MissingPairs :
                 \E k \in 1..Len(errors) :
                    /\ errors[k].index = pair[1]
                    /\ errors[k].error = "missing_field:" \o pair[2]
           /\ \A k, l \in 1..Len(errors) :
                 k < l => errors[k].index <= errors[l].index
           /\ result.valid <=> (errors = <<>>)

\* two receipts with missing fields were scanned and both were reported
C13_Witness ==
    /\ IsValidate
    /\ Len(receipts) = 3
    /\ receipts[1] = PartialReceipt
    /\ receipts[2] = GoodReceipt
    /\ receipts[3] = BareReceipt
    /\ Len(Outcome(last.events).arg.errors) = 6
    /\ Outcome(last.events).arg.valid = FALSE

\* C14: validate_receipt_chain reports valid = true for every list in which
\* each receipt has the four required keys, whatever the payload_hash values
\* are, a payload_hash that does not match the content included.
C14_PresenceOnly ==
    (IsValidate /\ \A i \in 1..Len(receipts) :
                      {"receipt_type", "ts", "tenant_id", "payload_hash"}
                          \subseteq Keys(receipts[i]))
        => Outcome(last.events).arg.valid = TRUE

\* a list holding a receipt whose payload_hash does not match its content was
\* reported valid
C14_Witness ==
    /\ IsValidate
    /\ Len(receipts) = 2
    /\ receipts[2] = ForgedReceipt
    /\ Get(receipts[2], "payload_hash", "") # JsonStr(expected_hash(receipts[2]))
    /\ Outcome(last.events).arg.valid = TRUE

------------------------------------------------------------------------------
(* Claims about create_anchor *)

IsAnchor == last.op = "create_anchor"

\* C15: create_anchor(receipts) returns merkle_root = merkle(receipts),
\* anchor_hash = dual_hash(merkle_root) and receipt_count = len(receipts), and
\* emits exactly one "anchor" receipt that carries the same merkle_root and
\* anchor_hash and batch_size = len(receipts); for the empty list too.
C15_AnchorMatchesBatch ==
    /\ [](IsAnchor =>
            LET anchor == Outcome(last.events).arg
                emitted == log[Len(log)].receipt
            IN /\ Outcome(last.events).ev = "return"
               /\ anchor.merkle_root = merkle(receipts)
               /\ anchor.anchor_hash = dual_hash(anchor.merkle_root)
               /\ anchor.receipt_count = Len(receipts)
               /\ CallTypes = <<"anchor">>
               /\ Cardinality(PrintsAt(last.events)) = 1
               /\ Get(emitted, "receipt_type", "") = JsonStr("anchor")
               /\ Get(emitted, "merkle_root", "") = JsonStr(anchor.merkle_root)
               /\ Get(emitted, "anchor_hash", "") = JsonStr(anchor.anchor_hash)
               /\ Get(emitted, "batch_size", "") = JsonNum(Len(receipts))
               /\ stream[Len(stream)] = json_dumps(emitted))
    /\ [][last'.op = "create_anchor" =>
            /\ Len(stream') = Len(stream) + 1
            /\ Len(log') = Len(log) + 1]_vars

\* the empty batch was anchored a second time
C15_Witness ==
    /\ IsAnchor
    /\ receipts = <<>>
    /\ Outcome(last.events).arg.merkle_root = dual_hash("empty")
    /\ Len(stream) = 2

------------------------------------------------------------------------------
(* Claims about the Merkle root *)

IsMerkle == last.op = "merkle"
Root == Outcome(last.events).arg

\* C16: the root is order-sensitive: merkle([a, b]) # merkle([b, a]) for
\* distinct a and b, and any two receipt lists of equal length that differ at
\* some position have different roots.
C16_RootOrderSensitive ==
    IsMerkle =>
        \A other \in [1..Len(receipts) -> ReceiptPool] :
            (\E i \in 1..Len(receipts) : ~SameDict(other[i], receipts[i]))
                => merkle(other) # Root

\* the root of [a, b] was computed and is not the root of [b, a]
C16_Witness ==
    /\ IsMerkle
    /\ receipts = <<ReceiptA, ReceiptB>>
    /\ Root # merkle(<<ReceiptB, ReceiptA>>)

\* the sorted-key JSON text of a receipt of the pool
LeafJson(r) ==
    IF r = ReceiptA THEN "{\"amount\": 1, \"entity\": \"dolton\"}"
    ELSE "{\"amount\": 2, \"entity\": \"dolton\"}"

Leaf(i) == dual_hash(LeafJson(receipts[i]))
Parent(left, right) == dual_hash(left \o right)

\* the root as specified, written out for each length: an odd level is
\* padded with its last hash, a single item's root is its leaf
SpecifiedRoot ==
    CASE Len(receipts) = 0 -> dual_hash("empty")
      [] Len(receipts) = 1 -> Leaf(1)
      [] Len(receipts) = 2 -> Parent(Leaf(1), Leaf(2))
      [] Len(receipts) = 3 ->
            Parent(Parent(Leaf(1), Leaf(2)), Parent(Leaf(3), Leaf(3)))
      [] Len(receipts) = 4 ->
            Parent(Parent(Leaf(1), Leaf(2)), Parent(Leaf(3), Leaf(4)))
      [] Len(receipts) = 5 ->
            Parent(Parent(Parent(Leaf(1), Leaf(2)), Parent(Leaf(3), Leaf(4))),
                   Parent(Parent(Leaf(5), Leaf(5)), Parent(Leaf(5), Leaf(5))))
      [] Len(receipts) = 6 ->
            Parent(Parent(Parent(Leaf(1), Leaf(2)), Parent(Leaf(3), Leaf(4))),
                   Parent(Parent(Leaf(5), Leaf(6)), Parent(Leaf(5), Leaf(6))))
      [] Len(receipts) = 7 ->
            Parent(Parent(Parent(Leaf(1), Leaf(2)), Parent(Leaf(3), Leaf(4))),
                   Parent(Parent(Leaf(5), Leaf(6)), Parent(Leaf(7), Leaf(7))))
      [] OTHER -> Root

\* C17: merkle([]) is dual_hash("empty"); otherwise a leaf is the dual_hash of
\* the item's sorted-key JSON, an odd level longer than one is padded with its
\* last hash, a parent is dual_hash(left string + right string), and a single
\* item's root is its leaf hash.
C17_RootBuiltAsSpecified == IsMerkle => Root = SpecifiedRoot

\* the root of five receipts, two levels of which are odd
C17_Witness ==
    /\ IsMerkle
    /\ Len(receipts) = 5
    /\ receipts[4] # receipts[5]
    /\ Root = SpecifiedRoot

IsProof == last.op = "generate_merkle_proof"

\* C18: generate_merkle_proof(R, i) returns the empty list, and raises
\* nothing, whenever R is empty or i is no valid index of R (i >= len(R) or
\* i < 0).
C18_NoProofForInvalidIndex ==
    (IsProof /\ (\/ receipts = <<>>
                 \/ last.args.target_index >= Len(receipts)
                 \/ last.args.target_index < 0))
        => /\ Outcome(last.events).ev = "return"
           /\ Outcome(last.events).arg = <<>>

\* the index one past the end of a three-element list, which padding to four
\* leaves would otherwise give a proof
C18_Witness ==
    /\ IsProof
    /\ Len(receipts) = 3
    /\ last.args.target_index = 3
    /\ Outcome(last.events).arg = <<>>

------------------------------------------------------------------------------
(* Claims about ReceiptChain *)

AddSucceeded == last.op = "add_receipt" /\ Outcome(last.events).ev = "return"

\* C19: after every add_receipt call that succeeds, the chain's receipts are
\* the previous receipts followed by the added one, and merkle_root equals
\* merkle(receipts) over the whole current list.
C19_AddRecomputesRoot ==
    /\ [](AddSucceeded => chain.merkle_root = merkle(chain.receipts))
    /\ [][(last'.op = "add_receipt" /\ Outcome(last'.events).ev = "return")
            => /\ chain'.receipts = Append(chain.receipts, last'.args.receipt)
               /\ chain'.merkle_root = merkle(chain'.receipts)]_vars

\* a third receipt was added to a chain of two
C19_Witness ==
    /\ AddSucceeded
    /\ Len(chain.receipts) = 3
    /\ chain.receipts[3] = last.args.receipt
    /\ chain.merkle_root = merkle(chain.receipts)

------------------------------------------------------------------------------
(* Claims about the hash fallback *)

\* C20 (as claimed): when BLAKE3 is unavailable, dual_hash returns
\* "<sha256>:<sha256>" and the degraded mode is flagged: an anchor receipt
\* produced in that mode does not list BLAKE3 among its hash_algos.
C20_FallbackIsFlagged ==
    (IsAnchor /\ ~HAS_BLAKE3) =>
        LET anchor == Outcome(last.events).arg
            emitted == log[Len(log)].receipt
        IN /\ anchor.anchor_hash = sha256(anchor.merkle_root) \o ":"
                                       \o sha256(anchor.merkle_root)
           /\ Get(emitted, "hash_algos", "") # "[\"SHA256\", \"BLAKE3\"]"

------------------------------------------------------------------------------
(* Claims about dual_hash across calls and process runs *)

\* the bytes a value stands for: a str stands for its UTF-8 encoding
BytesOf(value) ==
    IF value.type = "bytes" THEN value.bytes
    ELSE IF value.chars = <<97>> THEN <<97>>
    ELSE <<195, 169>>

------------------------------------------------------------------------------
(* Claims about the verify and anchor commands *)

IsCli == last.op \in {"cmd_verify", "cmd_anchor"}

\* C22 (as claimed): cmd_verify and cmd_anchor raise nothing and emit exactly
\* one receipt: with status "file_not_found" when the file does not exist,
\* and carrying merkle(receipts) of the lines read when it exists.
C22_OneReceiptPerCommand ==
    IsCli =>
        /\ Outcome(last.events).ev = "return"
        /\ Len(Calls) = 1
        /\ Cardinality(PrintsAt(last.events)) = 1
        /\ Returned = log[Len(log)].receipt
        /\ IF ledger.exists
           THEN Get(Returned, "merkle_root", "")
                    = JsonStr(merkle(loaded(ledger.lines)))
           ELSE Get(Returned, "status", "") = JsonStr("file_not_found")

------------------------------------------------------------------------------
(* Claims about the baseline cache *)

\* what entropy_baseline(entity_type, period) returns from a given cache
Looked(cache, pair) == entropy_baseline(cache, pair[1], pair[2]).baseline

\* C23 (as claimed): the cache is keyed per pair (entity_type, period): a call
\* for one pair never changes what entropy_baseline returns for a different
\* pair.
C23_PairsAreIndependent ==
    [][last'.op \in {"set_baseline", "entropy_baseline", "entropy_receipt"} =>
          \A other \in BaselinePairs :
             other # <<last'.args.entity_type, last'.args.period>> =>
                Looked(baseline_cache', other) = Looked(baseline_cache, other)]_vars

------------------------------------------------------------------------------
(* Claims about the chi-squared classification *)

\* C24: chi_squared_test with n = 0 reports p_value 1.0 and
\* "insufficient_data"; otherwise p < 0.01 is "high_priority_anomaly",
\* 0.01 <= p < 0.05 is "flag_for_investigation" and p >= 0.05 is "pass";
\* degrees_of_freedom is the number of expected digits minus one.
C24_ChiSquaredClassification ==
    last.op = "chi_squared_test" =>
        LET result == Outcome(last.events).arg
            p_value == result.p_value
        IN /\ last.args.n = 0 =>
                 /\ p_value = 1000
                 /\ result.pass_fail = "insufficient_data"
           /\ last.args.n > 0 =>
                 result.pass_fail =
                     CASE p_value < 10 -> "high_priority_anomaly"
                       [] p_value >= 10 /\ p_value < 50 -> "flag_for_investigation"
                       [] p_value >= 50 -> "pass"
           /\ result.degrees_of_freedom
                 = IF last.args.digit_position = 1 THEN 8 ELSE 9

C24_Witness ==
    /\ last.op = "chi_squared_test"
    /\ last.args.n > 0
    /\ Outcome(last.events).arg.p_value = 10
    /\ Outcome(last.events).arg.pass_fail = "flag_for_investigation"

------------------------------------------------------------------------------
(* Claims about the entropy anomaly check *)

\* C25: with a baseline whose std is 0 the z-score is 0.0, so the severity is
\* "normal" and is_anomaly is false for every ratio; is_anomaly is true
\* exactly when the severity is not "normal", that is when |z| > 1.5.
C25_ZeroSpreadIsNormal ==
    last.op = "entropy_anomaly_check" =>
        LET result == Outcome(last.events).arg
            current == last.args.current
            baseline == last.args.baseline
        IN /\ baseline.std = 0 =>
                 /\ result.z_score.num = 0
                 /\ result.severity = "normal"
                 /\ ~result.is_anomaly
           /\ result.is_anomaly <=> result.severity # "normal"
           /\ result.is_anomaly <=>
                 /\ baseline.std # 0
                 /\ Abs(current - baseline.mean) * 1000 > 1500 * Abs(baseline.std)

C25_Witness ==
    /\ last.op = "entropy_anomaly_check"
    /\ last.args.baseline.std = 0
    /\ last.args.current = 1000
    /\ ~Outcome(last.events).arg.is_anomaly

------------------------------------------------------------------------------
(* Claims about the shape of a Merkle proof *)

\* ceil(log2(n)) for n >= 1
CeilLog2(n) == CHOOSE d \in 0..n : 2^d >= n /\ (d = 0 \/ 2^(d - 1) < n)

\* the leaf hashes of R followed by copies of the last one, up to the next
\* power of two
PaddedLeaves(R) ==
    LET hashes == leaf_hashes(R)
    IN [j \in 1..(2^CeilLog2(Len(R))) |->
           IF j <= Len(hashes) THEN hashes[j] ELSE hashes[Len(hashes)]]

\* the nodes at level k of the tree over the padded leaves
RECURSIVE TreeLevel(_, _)
TreeLevel(R, k) ==
    IF k = 0 THEN PaddedLeaves(R)
    ELSE LET below == TreeLevel(R, k - 1)
         IN [j \in 1..(Len(below) \div 2) |->
                dual_hash(below[2 * j - 1] \o below[2 * j])]

\* the sibling, at level k, of the node above leaf i
Sibling(R, i, k) ==
    LET pos == i \div (2^k)
    IN TreeLevel(R, k)[(IF pos % 2 = 0 THEN pos + 1 ELSE pos - 1) + 1]

ValidProof ==
    /\ IsProof
    /\ receipts # <<>>
    /\ last.args.target_index \in 0..(Len(receipts) - 1)

\* C26: for a non-empty R and a valid index i, generate_merkle_proof returns
\* exactly ceil(log2(len(R))) pairs, and pair k (from 0) is the sibling node at
\* level k of the tree over the padded leaves with position "right" when
\* floor(i / 2^k) is even and "left" when it is odd.
C26_ProofShape ==
    ValidProof =>
        LET proof == Outcome(last.events).arg
            i == last.args.target_index
        IN /\ Len(proof) = CeilLog2(Len(receipts))
           /\ \A k \in 0..(Len(proof) - 1) :
                 proof[k + 1] = << Sibling(receipts, i, k),
                                   IF (i \div (2^k)) % 2 = 0 THEN "right"
                                   ELSE "left" >>

\* a proof of three pairs for the fifth of six receipts, whose second pair is
\* on the right and made of padding only
C26_Witness ==
    /\ ValidProof
    /\ Len(receipts) = 6
    /\ last.args.target_index = 4
    /\ Len(Outcome(last.events).arg) = 3
    /\ Outcome(last.events).arg[2][2] = "right"

------------------------------------------------------------------------------
(* Claims about duplicate padding *)

\* C27 (as claimed): for every list R of odd length >= 3,
\* merkle(R + [R[-1]]) = merkle(R), and a proof for the appended duplicate
\* verifies against the root of R.
C27_DuplicateSharesRoot ==
    (last.op = "verify_duplicate" /\ last.args.target_index = Len(receipts)) =>
        /\ merkle(last.args.items) = merkle(receipts)
        /\ Outcome(last.events).arg = TRUE

------------------------------------------------------------------------------
(* Claims about the two tree constructions *)

\* C28 (as claimed): for every non-empty receipt list, the root of the tree
\* that generate_merkle_proof builds equals merkle(receipts).
C28_TreesAgree ==
    (IsMerkle /\ receipts # <<>>) => proof_tree_root(receipts) = Root

------------------------------------------------------------------------------
(* Claims about a sealed ReceiptChain *)

AddRefused ==
    /\ last.op = "add_receipt"
    /\ Outcome(last.events).ev = "raise"
    /\ Outcome(last.events).arg = "ValueError: Cannot add to sealed chain"

\* C29: once seal() has run, is_sealed never becomes false again, every later
\* add_receipt raises ValueError and leaves receipts, merkle_root and
\* anchor_hash unchanged, and in every sealed state merkle_root is
\* merkle(receipts) and anchor_hash is dual_hash(merkle_root).
C29_SealedIsFrozen ==
    /\ [](chain.is_sealed =>
            /\ chain.merkle_root = merkle(chain.receipts)
            /\ chain.anchor_hash = dual_hash(chain.merkle_root))
    /\ [][chain.is_sealed => chain'.is_sealed]_vars
    /\ [][(chain.is_sealed /\ last'.op = "add_receipt") =>
             /\ Outcome(last'.events).ev = "raise"
             /\ Outcome(last'.events).arg = "ValueError: Cannot add to sealed chain"
             /\ chain'.receipts = chain.receipts
             /\ chain'.merkle_root = chain.merkle_root
             /\ chain'.anchor_hash = chain.anchor_hash]_vars

\* an add_receipt refused by a sealed chain of two receipts
C29_Witness ==
    /\ chain.is_sealed
    /\ AddRefused
    /\ Len(chain.receipts) = 2

------------------------------------------------------------------------------
(* Claims about the caller's payload map *)

\* C30: emit_receipt changes the caller's map at most by adding tenant_id
\* with the default value when it is absent: every key present before the
\* call keeps its value, and receipt_type, ts and payload_hash are never
\* written into the caller's map.
C30_CallerMapKeepsItsEntries ==
    IsEmit =>
        LET before == last.args.data
            after == last.data
        IN /\ \A k \in Keys(before) :
                 Has(after, k) /\ Get(after, k, "") = Get(before, k, "")
           /\ IF Has(before, "tenant_id")
              THEN after = before
              ELSE after = Append(before, <<"tenant_id", JsonStr(TENANT_ID)>>)
           /\ \A k \in Reserved : ~Has(before, k) => ~Has(after, k)

\* a call whose map had no tenant_id and now holds the default one, and no
\* payload_hash
C30_Witness ==
    /\ IsEmit
    /\ last.args.data = <<Entity>>
    /\ last.data = <<Entity, <<"tenant_id", JsonStr(TENANT_ID)>> >>
    /\ Has(Returned, "payload_hash")

====
